---- MODULE Spec2Model ----
(***************************************************************************)
(* Microtable (src/src/Microtable.ts, the class exported at line 463): a   *)
(* columnar table with composite-key indexes and uniqueness constraints.   *)
(*                                                                         *)
(* A table instance is a record of the object's attributes:                *)
(*   fields                the schema, an ordered list of field names      *)
(*   data                  field name -> array of values (a column)        *)
(*   indexes               index name -> (bucket key -> array of offsets)  *)
(*   uniquenessIndexNames  array of index names, in registration order     *)
(*   length                the public row count                            *)
(* A query (where, select) returns a second table instance; `result` holds *)
(* it, and `shared` names the attributes whose value is one and the same   *)
(* JavaScript object in both instances, so that a write through either is  *)
(* seen through the other.                                                 *)
(* `step` is the place an insert that is followed statement by statement   *)
(* has reached (SpecSteps); in the other specifications a call is one      *)
(* step and `step` stays Idle.                                             *)
(* Row offsets are 0-based as in the source; TLA+ sequences are 1-based,   *)
(* so the array element at offset i is arr[i + 1].                         *)
(* An index name is the source's comma-joined string of field names, kept  *)
(* here as the sequence of the names (join and split are inverses for      *)
(* field names without commas).  A JavaScript object (a row, a match) is   *)
(* the ordered list of its own properties, each a <<name, value>> pair.    *)
(***************************************************************************)
EXTENDS Integers, Sequences, FiniteSets, Bags, TLC

VARIABLES table, prev, call, outcome, result, calls, shared, value, step

vars == <<table, prev, call, outcome, result, calls, shared, value, step>>

(* ------------------------------ bounds -------------------------------- *)

\* stored values are the numbers 1..MaxVal
MaxVal == 2
\* rows handed to the constructor
MaxInitRows == 2
\* mutating calls (insert, createIndex, deleteIndex, uniquenessConstraint)
\* made on the table after construction
MaxCalls == 4
\* calls up to which a table returned by a query is followed further
MaxChain == 2

(* ------------------------- JavaScript values -------------------------- *)

\* the value `undefined`: a missing property, an array read out of range
Undef == 0
\* the JSON text `null`
Null == -1

Values == 1..MaxVal

Max(x, y) == IF x >= y THEN x ELSE y
Min(x, y) == IF x <= y THEN x ELSE y

Range(s) == {s[i] : i \in 1..Len(s)}

\* arr[i]: undefined outside 0 .. arr.length - 1
at(arr, i) == IF i >= 0 /\ i < Len(arr) THEN arr[i + 1] ELSE Undef

\* arr.indexOf(x)
indexOf(arr, x) ==
    IF x \in Range(arr)
    THEN (CHOOSE i \in 1..Len(arr) :
              arr[i] = x /\ \A j \in 1..(i - 1) : arr[j] # x) - 1
    ELSE -1

\* arr.splice(start, 1): a negative start counts from the end of the array,
\* a start at or past the end removes nothing
splice(arr, start) ==
    LET len == Len(arr)
        s   == IF start < 0 THEN Max(len + start, 0) ELSE Min(start, len)
    IN  IF s < len
        THEN [k \in 1..(len - 1) |-> IF k <= s THEN arr[k] ELSE arr[k + 1]]
        ELSE arr

\* Object.keys(obj)
keys(obj) == [i \in 1..Len(obj) |-> obj[i][1]]

\* obj[k]
prop(obj, k) ==
    IF \E i \in 1..Len(obj) : obj[i][1] = k
    THEN obj[CHOOSE i \in 1..Len(obj) : obj[i][1] = k][2]
    ELSE Undef

\* JSON.stringify of one array element: undefined is written as null
JSONValue(v) == IF v = Undef THEN Null ELSE v

\* JSON.stringify(array): the text, kept as the list of the elements' texts
stringifyArray(arr) == [i \in 1..Len(arr) |-> JSONValue(arr[i])]

\* JSON.stringify(object): properties whose value is undefined are left out
stringifyObject(obj) == SelectSeq(obj, LAMBDA p : p[2] # Undef)

(* ------------------------------ the table ----------------------------- *)

\* the schema of the table under test
Schema == <<"a", "b">>

\* constructor, row-major branch with an explicit field list
create(rows, fields) ==
    [fields |-> fields,
     data |-> [f \in Range(fields) |->
                  [i \in 1..Len(rows) |-> prop(rows[i], f)]],
     indexes |-> <<>>,
     uniquenessIndexNames |-> <<>>,
     length |-> Len(rows)]

\* constructor, column-major branch
createFromColumns(data, fields) ==
    [fields |-> fields,
     data |-> data,
     indexes |-> <<>>,
     uniquenessIndexNames |-> <<>>,
     length |-> Len(data[fields[1]])]

\* record(i)
record(t, i) == [j \in 1..Len(t.fields) |-> <<t.fields[j], at(t.data[t.fields[j]], i)>>]

\* records()
records(t) == [i \in 1..Max(t.length, 0) |-> record(t, i - 1)]

\* the loop bound the scans use: this.data[Object.keys(this.data)[0]].length
rowLength(t) == Len(t.data[t.fields[1]])

RECURSIVE insertSorted(_, _, _)
insertSorted(t, sorted, f) ==
    IF sorted = <<>> THEN <<f>>
    ELSE IF indexOf(t.fields, Head(sorted)) - indexOf(t.fields, f) > 0
         THEN <<f>> \o sorted
         ELSE <<Head(sorted)>> \o insertSorted(t, Tail(sorted), f)

\* sortFields: a stable sort by position in the schema
RECURSIVE sortFields(_, _)
sortFields(t, fields) ==
    IF fields = <<>> THEN <<>>
    ELSE insertSorted(t, sortFields(t, SubSeq(fields, 1, Len(fields) - 1)),
                      fields[Len(fields)])

\* fieldKey
fieldKey(t, fields) == sortFields(t, fields)

\* filterByRowIndex
filterByRowIndex(t, indices) ==
    createFromColumns(
        [f \in Range(t.fields) |->
            [k \in 1..Len(indices) |-> at(t.data[f], indices[k])]],
        t.fields)

(* ----------------------------- operations ----------------------------- *)

\* the offsets 0 .. n-1 in ascending order
Offsets(n) == [i \in 1..n |-> i - 1]

\* the bucket key createIndex computes for row i:
\* JSON.stringify(fields.map((field) => this.data[field][i]))
rowKey(t, fields, i) ==
    stringifyArray([j \in 1..Len(fields) |-> at(t.data[fields[j]], i)])

\* the Map createIndex builds: one pass over the rows in ascending offset,
\* the bucket keys computed from the fields in the order of the arguments
buildIndex(t, fields) ==
    LET n == rowLength(t)
    IN  [k \in {rowKey(t, fields, i) : i \in 0..(n - 1)} |->
            SelectSeq(Offsets(n), LAMBDA i : rowKey(t, fields, i) = k)]

\* createIndex(...fields)
createIndex(t, fields) ==
    LET key == fieldKey(t, fields)
    IN  [t EXCEPT !.indexes =
            [k \in (DOMAIN t.indexes) \cup {key} |->
                IF k = key THEN buildIndex(t, fields) ELSE t.indexes[k]]]

\* a deleteIndex that drops the index and keeps the constraint's name
deleteIndexOnly(t, fields) ==
    LET key == fieldKey(t, fields)
    IN  [t EXCEPT
            !.indexes = [k \in (DOMAIN t.indexes) \ {key} |-> t.indexes[k]]]

\* deleteIndex(...fields)
deleteIndex(t, fields) ==
    LET key == fieldKey(t, fields)
    IN  [t EXCEPT
            !.uniquenessIndexNames =
                SelectSeq(t.uniquenessIndexNames, LAMBDA name : name # key),
            !.indexes = [k \in (DOMAIN t.indexes) \ {key} |-> t.indexes[k]]]

\* names every JavaScript object inherits from Object.prototype: this.data
\* is a plain object, so this.data[name] is a function for such a name and
\* this.data[name][i] is undefined
PrototypeNames == {"toString"}

\* this.data[field][i], for a field this.data has as own or inherited property
cell(t, field, i) ==
    IF field \in DOMAIN t.data THEN at(t.data[field], i) ELSE Undef

\* select(...fields) ends in Microtable.create(records) without a field
\* list, whose constructor reads Object.keys(data[0]): a TypeError when the
\* table has no row.  With rows, this.data[field][i] is a TypeError when
\* this.data[field] is undefined.
selectThrows(t, fields) ==
    \/ rowLength(t) = 0
    \/ \E j \in 1..Len(fields) :
           fields[j] \notin (DOMAIN t.data) \cup PrototypeNames

\* select(...fields), when it returns
select(t, fields) ==
    create([i \in 1..rowLength(t) |->
               [j \in 1..Len(fields) |->
                   <<fields[j], cell(t, fields[j], i - 1)>>]],
           fields)

\* satisfiesUniquenessConstraint(...fields), when select returns
satisfiesUniquenessConstraint(t, fields) ==
    LET recs   == records(select(t, fields))
        tuples == [i \in 1..Len(recs) |-> stringifyObject(recs[i])]
    IN  Cardinality(Range(tuples)) = Len(tuples)

\* uniquenessConstraint(...fields): the outcome of the call
uniquenessConstraintOutcome(t, fields) ==
    IF selectThrows(t, fields) THEN "TypeError"
    ELSE IF ~satisfiesUniquenessConstraint(t, fields) THEN "Error"
    ELSE "ok"

\* uniquenessConstraint(...fields): the table after the call
uniquenessConstraint(t, fields) ==
    IF uniquenessConstraintOutcome(t, fields) # "ok" THEN t
    ELSE createIndex(
             [t EXCEPT !.uniquenessIndexNames =
                 Append(t.uniquenessIndexNames, fieldKey(t, fields))],
             fields)

\* the bucket key insert computes for the new row under an index name:
\* JSON.stringify(fields.map((field) => record[field])), fields = name.split(",")
recordKey(name, rec) ==
    stringifyArray([j \in 1..Len(name) |-> prop(rec, name[j])])

\* for (const rowToDelete of rowsToDelete): length drops by one per offset
\* listed, and each column is spliced at that offset
RECURSIVE deleteRows(_, _)
deleteRows(t, rowsToDelete) ==
    IF rowsToDelete = <<>> THEN t
    ELSE deleteRows(
             [t EXCEPT !.length = @ - 1,
                       !.data = [f \in DOMAIN t.data |->
                                    IF f \in Range(t.fields)
                                    THEN splice(t.data[f], Head(rowsToDelete))
                                    ELSE t.data[f]]],
             Tail(rowsToDelete))

\* insert, the eviction loop over uniquenessIndexNames: reading a bucket of
\* an index that does not exist is a TypeError that ends the call
RECURSIVE evict(_, _, _)
evict(t, names, rec) ==
    IF names = <<>> THEN [table |-> t, threw |-> FALSE]
    ELSE IF Head(names) \notin DOMAIN t.indexes
         THEN [table |-> t, threw |-> TRUE]
         ELSE LET index == t.indexes[Head(names)]
                  key   == recordKey(Head(names), rec)
              IN  evict(IF key \in DOMAIN index
                        THEN deleteRows(t, index[key])
                        ELSE t,
                        Tail(names), rec)

\* an "Update the data" that counts the row and pushes nothing
skipAppend(t, rec) == [t EXCEPT !.length = @ + 1]

\* insert, "Update the data": one push per own property of the record
appendRow(t, rec) ==
    [t EXCEPT !.data = [f \in DOMAIN t.data |->
                           IF f \in Range(keys(rec))
                           THEN Append(t.data[f], prop(rec, f))
                           ELSE t.data[f]],
              !.length = @ + 1]

\* insert, "Update the indexes": newRowIndex = this.length - 1 goes to the
\* bucket of the new row's key in every index
updateIndexes(t, rec) ==
    LET newRowIndex == t.length - 1
    IN  [t EXCEPT !.indexes =
            [name \in DOMAIN t.indexes |->
                LET index == t.indexes[name]
                    key   == recordKey(name, rec)
                IN  [k \in (DOMAIN index) \cup {key} |->
                        IF k = key
                        THEN IF key \in DOMAIN index
                             THEN Append(index[key], newRowIndex)
                             ELSE <<newRowIndex>>
                        ELSE index[k]]]]

\* insert, "Update the indexes", one turn of the loop: the index `name`
updateIndex(t, name, rec) ==
    LET newRowIndex == t.length - 1
        index == t.indexes[name]
        key   == recordKey(name, rec)
    IN  [t EXCEPT !.indexes[name] =
            [k \in (DOMAIN index) \cup {key} |->
                IF k = key
                THEN IF key \in DOMAIN index
                     THEN Append(index[key], newRowIndex)
                     ELSE <<newRowIndex>>
                ELSE index[k]]]

\* insert(record): the outcome of the call
insertOutcome(t, rec) ==
    IF evict(t, t.uniquenessIndexNames, rec).threw THEN "TypeError" ELSE "ok"

\* insert(record): the table after the call
insert(t, rec) ==
    LET e == evict(t, t.uniquenessIndexNames, rec)
    IN  IF e.threw THEN e.table
        ELSE updateIndexes(appendRow(e.table, rec), rec)

\* where(match), the branch taken when this.indexes[key] exists
whereIndexed(t, match) ==
    LET matchFields == keys(match)
        index    == t.indexes[fieldKey(t, matchFields)]
        indexKey == stringifyArray(
                        [j \in 1..Len(matchFields) |-> prop(match, matchFields[j])])
        bucket   == IF indexKey \in DOMAIN index THEN index[indexKey] ELSE <<>>
    IN  create([k \in 1..Len(bucket) |-> record(t, bucket[k])], t.fields)

\* a scan that stops at the first row that matches
whereScanFirst(t, match) ==
    LET matchFields == keys(match)
        rowPositions ==
            SelectSeq(Offsets(rowLength(t)),
                      LAMBDA i : \A j \in 1..Len(matchFields) :
                          at(t.data[matchFields[j]], i) = prop(match, matchFields[j]))
    IN  filterByRowIndex(t, SubSeq(rowPositions, 1, Min(1, Len(rowPositions))))

\* where(match), the scan
whereScan(t, match) ==
    LET matchFields == keys(match)
        rowPositions ==
            SelectSeq(Offsets(rowLength(t)),
                      LAMBDA i : \A j \in 1..Len(matchFields) :
                          at(t.data[matchFields[j]], i) = prop(match, matchFields[j]))
    IN  filterByRowIndex(t, rowPositions)

\* a where that returns the table it is called on, indexes and constraints
\* included
whereSelf(t, match) == t

\* where(match)
where(t, match) ==
    IF fieldKey(t, keys(match)) \in DOMAIN t.indexes
    THEN whereIndexed(t, match)
    ELSE whereScan(t, match)

\* a single that checks the number of fields alone
singleOutcomeFields(t) ==
    IF Len(t.fields) # 1 THEN "Error" ELSE "ok"

\* single(): the outcome of the call
singleOutcome(t) ==
    IF Len(t.fields) # 1 \/ t.length # 1 THEN "Error" ELSE "ok"

\* single(): the value returned, this.data[this.fields[0]][0]
single(t) == at(t.data[t.fields[1]], 0)

\* a where that hands the columns of the table themselves to the new instance
whereSharesColumns(t, match) == {"fields", "data"}

\* The attributes of the table where returns that are the very objects of
\* the table it was called on.  The index branch passes this.fields to the
\* constructor, which keeps a non-empty field list as it is; its rows are
\* new objects.  The scan passes columns built by indices.map, and the
\* constructor takes the fields of a column object from Object.keys.
whereShares(t, match) ==
    IF fieldKey(t, keys(match)) \in DOMAIN t.indexes THEN {"fields"} ELSE {}

\* select pushes new row objects and passes no field list
selectShares(t, fields) == {}

\* `other` after a call has left `mutated` in the instance that shares the
\* attributes named in sh with it
aliased(other, mutated, sh) ==
    [fields |-> IF "fields" \in sh THEN mutated.fields ELSE other.fields,
     data |-> IF "data" \in sh THEN mutated.data ELSE other.data,
     indexes |-> IF "indexes" \in sh THEN mutated.indexes ELSE other.indexes,
     uniquenessIndexNames |->
         IF "uniquenessIndexNames" \in sh THEN mutated.uniquenessIndexNames
         ELSE other.uniquenessIndexNames,
     length |-> other.length]

(* ------------- the variant of the class that offers get --------------- *)

\* Microtable.blank, the symbol that marks the field get is asked for
blank == -3
\* the number 0 as a stored value, kept apart from the encoding of undefined
Zero == -2

\* !v is true for undefined, null and 0
falsy(v) == v \in {Undef, Null, Zero}

\* createIndex(...columns) of this variant: the index is named by the
\* columns joined in the order of the arguments
createIndexByColumns(t, columns) ==
    [t EXCEPT !.indexes =
        [k \in (DOMAIN t.indexes) \cup {columns} |->
            IF k = columns THEN buildIndex(t, columns) ELSE t.indexes[k]]]

\* where(match) of this variant: the index looked up is named by
\* Object.keys(match) joined in their order; both branches build row objects
\* and pass them to the constructor with this.fields
whereByKeys(t, match) ==
    LET matchKeys == keys(match)
    IN  IF matchKeys \in DOMAIN t.indexes
        THEN LET index    == t.indexes[matchKeys]
                 indexKey == stringifyArray(
                                 [j \in 1..Len(matchKeys) |-> prop(match, matchKeys[j])])
                 bucket   == IF indexKey \in DOMAIN index THEN index[indexKey]
                             ELSE <<>>
             IN  create([k \in 1..Len(bucket) |-> record(t, bucket[k])], t.fields)
        ELSE LET rowPositions ==
                     SelectSeq(Offsets(rowLength(t)),
                               LAMBDA i : \A j \in 1..Len(matchKeys) :
                                   at(t.data[matchKeys[j]], i) = prop(match, matchKeys[j]))
             IN  create([k \in 1..Len(rowPositions) |-> record(t, rowPositions[k])],
                        t.fields)

\* get(obj): the properties of obj whose value is not Microtable.blank
getMatch(obj) == SelectSeq(obj, LAMBDA p : p[2] # blank)

\* get(obj): the keys of obj whose value is Microtable.blank, in key order
getBlanks(obj) == keys(SelectSeq(obj, LAMBDA p : p[2] = blank))

\* get(obj): the fields find((field) => !match[field]) runs over, those it
\* accepts
getUnmatched(t, obj) ==
    SelectSeq(t.fields, LAMBDA field : falsy(prop(getMatch(obj), field)))

\* get(obj): the field whose value is returned, when one is settled
getBlankField(t, obj) ==
    IF getBlanks(obj) # <<>> THEN getBlanks(obj)[1] ELSE getUnmatched(t, obj)[1]

\* get(obj): the outcome of the call
getOutcome(t, obj) ==
    IF Len(getBlanks(obj)) > 1 THEN "Error"
    ELSE IF getBlanks(obj) = <<>> /\ Len(t.fields) - Len(getMatch(obj)) > 1
         THEN "Error"
    ELSE IF getBlanks(obj) = <<>> /\ getUnmatched(t, obj) = <<>> THEN "Error"
    ELSE IF Len(records(whereByKeys(t, getMatch(obj)))) > 1 THEN "Error"
    ELSE "ok"

\* get(obj): the value returned
get(t, obj) ==
    LET matchingRecords == records(whereByKeys(t, getMatch(obj)))
    IN  IF matchingRecords = <<>> THEN Undef
        ELSE prop(matchingRecords[1], getBlankField(t, obj))

(* ------------------------------- inputs ------------------------------- *)

\* rows that supply a value for every field of the schema
CompleteRows ==
    {[j \in 1..Len(Schema) |-> <<Schema[j], v[j]>>] :
        v \in [1..Len(Schema) -> Values]}

\* rows that leave out at least one field of the schema
PartialRows ==
    {SelectSeq(row, LAMBDA p : p[1] \in S) :
        row \in CompleteRows, S \in (SUBSET Range(Schema)) \ {Range(Schema)}}

\* argument lists of createIndex, deleteIndex and uniquenessConstraint: the
\* non-empty lists of distinct schema fields, in every order
FieldLists ==
    {fl \in UNION {[1..n -> Range(Schema)] : n \in 1..Len(Schema)} :
        \A i, j \in 1..Len(fl) : i # j => fl[i] # fl[j]}

\* match objects of where: a value for each field of a field list, the
\* properties in the order of the list
Matches ==
    UNION {{[j \in 1..Len(fl) |-> <<fl[j], v[j]>>] : v \in [1..Len(fl) -> Values]} :
              fl \in FieldLists}

\* the row arrays handed to Microtable.create(rows, Schema)
InitialRows == UNION {[1..n -> CompleteRows] : n \in 0..MaxInitRows}

\* a name that is no field of the schema and no inherited property
UnknownField == "c"

\* argument lists of select: the field lists, and lists that name a field
\* the schema does not have
SelectLists ==
    FieldLists
        \cup {<<n>> : n \in {UnknownField} \cup PrototypeNames}
        \cup {<<Schema[1], n>> : n \in {UnknownField} \cup PrototypeNames}

\* the rows that supply a value for every field of a field list
RowsFor(fields) ==
    {[j \in 1..Len(fields) |-> <<fields[j], v[j]>>] :
        v \in [1..Len(fields) -> Values]}

\* the non-empty lists of distinct fields of a field list, in its order
ListsOver(fields) ==
    {SelectSeq(fields, LAMBDA f : f \in S) : S \in (SUBSET Range(fields)) \ {{}}}

\* the values a row of the tables get is tried on can hold
StoredValues == Values \cup {Zero}

\* the rows of those tables
StoredRows ==
    {[j \in 1..Len(Schema) |-> <<Schema[j], v[j]>>] :
        v \in [1..Len(Schema) -> StoredValues]}

\* the row arrays of those tables
StoredInitialRows == UNION {[1..n -> StoredRows] : n \in 0..MaxInitRows}

\* arguments of get: for each list of distinct schema fields, the empty list
\* included, a stored value or Microtable.blank for each field
GetObjects ==
    UNION {{[j \in 1..Len(fl) |-> <<fl[j], v[j]>>] :
               v \in [1..Len(fl) -> StoredValues \cup {blank}]} :
              fl \in FieldLists \cup {<<>>}}

NoResult == <<>>

\* no insert is under way
Idle == [at |-> "idle", names |-> <<>>, rows |-> <<>>, todo |-> {}]

(* --------------------------- the state machine ------------------------ *)

\* A query returns a new table and assigns nothing of the table it is called
\* on, so the calls that can follow a query are the calls that can follow the
\* state it was made in: a run is followed up to its first query.
Open ==
    /\ call.op \in {"create", "insert", "createIndex", "deleteIndex",
                    "uniquenessConstraint"}
    /\ step.at = "idle"

\* a query has returned a table, which `result` holds
Derived ==
    \/ call.op = "where"
    \/ call.op = "select" /\ outcome = "ok"
    \/ call.op \in {"insertDerived", "insertSource", "selectDerived"}

Init ==
    \E rows \in InitialRows :
        /\ table = create(rows, Schema)
        /\ prev = create(rows, Schema)
        /\ call = [op |-> "create", arg |-> rows]
        /\ outcome = "ok"
        /\ result = NoResult
        /\ calls = 0
        /\ shared = {}
        /\ value = Undef
        /\ step = Idle

\* table.insert(rec) with a complete row
Insert ==
    \E rec \in CompleteRows :
        /\ Open
        /\ calls < MaxCalls
        /\ table' = insert(table, rec)
        /\ prev' = table
        /\ call' = [op |-> "insert", arg |-> rec]
        /\ outcome' = insertOutcome(table, rec)
        /\ result' = NoResult
        /\ calls' = calls + 1
        /\ step' = step
        /\ UNCHANGED <<shared, value>>

\* table.insert(rec) with a row that lacks a field
InsertPartial ==
    \E rec \in PartialRows :
        /\ Open
        /\ calls < MaxCalls
        /\ table' = insert(table, rec)
        /\ prev' = table
        /\ call' = [op |-> "insert", arg |-> rec]
        /\ outcome' = insertOutcome(table, rec)
        /\ result' = NoResult
        /\ calls' = calls + 1
        /\ step' = step
        /\ UNCHANGED <<shared, value>>

\* table.createIndex(...fields)
CreateIndex ==
    \E fields \in FieldLists :
        /\ Open
        /\ calls < MaxCalls
        /\ table' = createIndex(table, fields)
        /\ prev' = table
        /\ call' = [op |-> "createIndex", arg |-> fields]
        /\ outcome' = "ok"
        /\ result' = NoResult
        /\ calls' = calls + 1
        /\ step' = step
        /\ UNCHANGED <<shared, value>>

\* table.deleteIndex(...fields)
DeleteIndex ==
    \E fields \in FieldLists :
        /\ Open
        /\ calls < MaxCalls
        /\ table' = deleteIndex(table, fields)
        /\ prev' = table
        /\ call' = [op |-> "deleteIndex", arg |-> fields]
        /\ outcome' = "ok"
        /\ result' = NoResult
        /\ calls' = calls + 1
        /\ step' = step
        /\ UNCHANGED <<shared, value>>

\* table.uniquenessConstraint(...fields)
UniquenessConstraint ==
    \E fields \in FieldLists :
        /\ Open
        /\ calls < MaxCalls
        /\ table' = uniquenessConstraint(table, fields)
        /\ prev' = table
        /\ call' = [op |-> "uniquenessConstraint", arg |-> fields]
        /\ outcome' = uniquenessConstraintOutcome(table, fields)
        /\ result' = NoResult
        /\ calls' = calls + 1
        /\ step' = step
        /\ UNCHANGED <<shared, value>>

\* table.where(match)
Where ==
    \E match \in Matches :
        /\ Open
        /\ table' = table
        /\ prev' = table
        /\ call' = [op |-> "where", arg |-> match]
        /\ outcome' = "ok"
        /\ result' = where(table, match)
        /\ calls' = calls
        /\ step' = step
        /\ shared' = whereShares(table, match)
        /\ value' = value

\* table.select(...fields)
Select ==
    \E fields \in SelectLists :
        /\ Open
        /\ table' = table
        /\ prev' = table
        /\ call' = [op |-> "select", arg |-> fields]
        /\ outcome' = IF selectThrows(table, fields) THEN "TypeError" ELSE "ok"
        /\ result' = IF selectThrows(table, fields) THEN NoResult
                     ELSE select(table, fields)
        /\ calls' = calls
        /\ step' = step
        /\ shared' = selectShares(table, fields)
        /\ value' = value

\* table.single()
Single ==
    /\ Open
    /\ table' = table
    /\ prev' = table
    /\ call' = [op |-> "single", arg |-> <<>>]
    /\ outcome' = singleOutcome(table)
    /\ result' = NoResult
    /\ calls' = calls
    /\ step' = step
    /\ shared' = shared
    /\ value' = IF singleOutcome(table) = "ok" THEN single(table) ELSE Undef

\* table.satisfiesUniquenessConstraint(...fields)
SatisfiesUniquenessConstraint ==
    \E fields \in FieldLists :
        /\ Open
        /\ table' = table
        /\ prev' = table
        /\ call' = [op |-> "satisfiesUniquenessConstraint", arg |-> fields]
        /\ outcome' = IF selectThrows(table, fields) THEN "TypeError" ELSE "ok"
        /\ result' = NoResult
        /\ calls' = calls
        /\ step' = step
        /\ shared' = shared
        /\ value' = IF selectThrows(table, fields) THEN Undef
                    ELSE satisfiesUniquenessConstraint(table, fields)

\* derived.insert(rec), derived being the table the last query returned
InsertDerived ==
    /\ Derived
    /\ calls < MaxChain
    /\ \E rec \in RowsFor(result.fields) :
        /\ result' = insert(result, rec)
        /\ table' = aliased(table, insert(result, rec), shared)
        /\ prev' = result
        /\ call' = [op |-> "insertDerived", arg |-> rec]
        /\ outcome' = insertOutcome(result, rec)
        /\ calls' = calls + 1
        /\ step' = step
        /\ UNCHANGED <<shared, value>>

\* table.insert(rec) after the query
InsertSource ==
    \E rec \in CompleteRows :
        /\ Derived
        /\ calls < MaxChain
        /\ table' = insert(table, rec)
        /\ result' = aliased(result, insert(table, rec), shared)
        /\ prev' = table
        /\ call' = [op |-> "insertSource", arg |-> rec]
        /\ outcome' = insertOutcome(table, rec)
        /\ calls' = calls + 1
        /\ step' = step
        /\ UNCHANGED <<shared, value>>

\* derived.select(...fields): the table it returns takes the place of derived
SelectDerived ==
    /\ Derived
    /\ calls < MaxChain
    /\ \E fields \in ListsOver(result.fields) :
        /\ table' = table
        /\ prev' = result
        /\ call' = [op |-> "selectDerived", arg |-> fields]
        /\ outcome' = IF selectThrows(result, fields) THEN "TypeError" ELSE "ok"
        /\ result' = IF selectThrows(result, fields) THEN result
                     ELSE select(result, fields)
        /\ calls' = calls + 1
        /\ step' = step
        /\ shared' = IF selectThrows(result, fields) THEN shared
                     ELSE selectShares(result, fields)
        /\ value' = value

\* derived.single()
SingleDerived ==
    /\ Derived
    /\ table' = table
    /\ prev' = result
    /\ call' = [op |-> "singleDerived", arg |-> <<>>]
    /\ outcome' = singleOutcome(result)
    /\ result' = result
    /\ calls' = calls
    /\ step' = step
    /\ shared' = shared
    /\ value' = IF singleOutcome(result) = "ok" THEN single(result) ELSE Undef

\* table.insert(rec), entered: the eviction loop is about to run over
\* this.uniquenessIndexNames
InsertBegin ==
    \E rec \in CompleteRows :
        /\ Open
        /\ calls < MaxCalls
        /\ table' = table
        /\ prev' = table
        /\ call' = [op |-> "insert", arg |-> rec]
        /\ outcome' = "running"
        /\ calls' = calls + 1
        /\ step' = [at |-> "evict", names |-> table.uniquenessIndexNames,
                    rows |-> <<>>, todo |-> {}]
        /\ UNCHANGED <<result, shared, value>>

\* insert, one turn of the eviction loops: the splice of the next offset of
\* rowsToDelete, or the lookup of the next constraint's bucket, or the exit
\* to "Update the data"
InsertEvict ==
    /\ step.at = "evict"
    /\ IF step.rows # <<>>
       THEN /\ table' = deleteRows(table, <<Head(step.rows)>>)
            /\ step' = [step EXCEPT !.rows = Tail(@)]
            /\ outcome' = outcome
       ELSE IF step.names # <<>>
       THEN IF Head(step.names) \notin DOMAIN table.indexes
            THEN /\ table' = table
                 /\ step' = Idle
                 /\ outcome' = "TypeError"
            ELSE LET index == table.indexes[Head(step.names)]
                     key   == recordKey(Head(step.names), call.arg)
                 IN  /\ table' = table
                     /\ step' = [step EXCEPT
                                    !.names = Tail(@),
                                    !.rows = IF key \in DOMAIN index
                                             THEN index[key] ELSE <<>>]
                     /\ outcome' = outcome
       ELSE /\ table' = table
            /\ step' = [step EXCEPT !.at = "append"]
            /\ outcome' = outcome
    /\ UNCHANGED <<prev, call, result, calls, shared, value>>

\* insert, "Update the data" and this.length += 1
InsertAppend ==
    /\ step.at = "append"
    /\ table' = appendRow(table, call.arg)
    /\ step' = [step EXCEPT !.at = "index", !.todo = DOMAIN table.indexes]
    /\ UNCHANGED <<prev, call, outcome, result, calls, shared, value>>

\* insert, one turn of "Update the indexes", or the return
InsertIndex ==
    /\ step.at = "index"
    /\ IF step.todo = {}
       THEN /\ table' = table
            /\ step' = Idle
            /\ outcome' = "ok"
       ELSE \E name \in step.todo :
                /\ table' = updateIndex(table, name, call.arg)
                /\ step' = [step EXCEPT !.todo = @ \ {name}]
                /\ outcome' = outcome
    /\ UNCHANGED <<prev, call, result, calls, shared, value>>

Next ==
    \/ Insert
    \/ CreateIndex
    \/ DeleteIndex
    \/ UniquenessConstraint

\* every sequence of mutating calls whose inserts supply complete rows
Spec == Init /\ [][Next]_vars

NextQuery ==
    \/ Insert
    \/ CreateIndex
    \/ DeleteIndex
    \/ UniquenessConstraint
    \/ Where

\* the same call sequences, each followed by a where
SpecQuery == Init /\ [][NextQuery]_vars

NextPartial ==
    \/ Insert
    \/ InsertPartial
    \/ CreateIndex
    \/ DeleteIndex
    \/ UniquenessConstraint

\* every sequence of mutating calls, inserts of rows that lack a field included
SpecPartial == Init /\ [][NextPartial]_vars

NextIndex ==
    \/ Insert
    \/ CreateIndex
    \/ DeleteIndex

\* the call sequences made of insert, createIndex and deleteIndex alone
SpecIndex == Init /\ [][NextIndex]_vars

NextSteps ==
    \/ InsertBegin
    \/ InsertEvict
    \/ InsertAppend
    \/ InsertIndex
    \/ CreateIndex
    \/ DeleteIndex
    \/ UniquenessConstraint

\* the call sequences of Spec with every insert followed statement by
\* statement
SpecSteps == Init /\ [][NextSteps]_vars

NextSelect ==
    \/ Insert
    \/ CreateIndex
    \/ DeleteIndex
    \/ UniquenessConstraint
    \/ Select
    \/ Single
    \/ SatisfiesUniquenessConstraint

\* the call sequences of Spec, each followed by a select, a single or a
\* satisfiesUniquenessConstraint
SpecSelect == Init /\ [][NextSelect]_vars

NextDerived ==
    \/ Insert
    \/ CreateIndex
    \/ DeleteIndex
    \/ UniquenessConstraint
    \/ Where
    \/ Select
    \/ Single
    \/ InsertDerived
    \/ InsertSource
    \/ SelectDerived
    \/ SingleDerived

\* the call sequences of Spec up to a query, and then calls on the table
\* the query returned and on the table it was made on
SpecDerived == Init /\ [][NextDerived]_vars

\* Microtable.create(rows, Schema) with rows that may hold the number 0
InitGet ==
    \E rows \in StoredInitialRows :
        /\ table = create(rows, Schema)
        /\ prev = create(rows, Schema)
        /\ call = [op |-> "create", arg |-> rows]
        /\ outcome = "ok"
        /\ result = NoResult
        /\ calls = 0
        /\ shared = {}
        /\ value = Undef
        /\ step = Idle

\* table.createIndex(...columns), in the variant that offers get
CreateIndexByColumns ==
    \E columns \in FieldLists :
        /\ Open
        /\ calls < MaxChain
        /\ table' = createIndexByColumns(table, columns)
        /\ prev' = table
        /\ call' = [op |-> "createIndex", arg |-> columns]
        /\ outcome' = "ok"
        /\ result' = NoResult
        /\ calls' = calls + 1
        /\ step' = step
        /\ UNCHANGED <<shared, value>>

\* table.get(obj)
Get ==
    \E obj \in GetObjects :
        /\ Open
        /\ table' = table
        /\ prev' = table
        /\ call' = [op |-> "get", arg |-> obj]
        /\ outcome' = getOutcome(table, obj)
        /\ result' = NoResult
        /\ calls' = calls
        /\ step' = step
        /\ shared' = shared
        /\ value' = IF getOutcome(table, obj) = "ok" THEN get(table, obj) ELSE Undef

NextGet ==
    \/ CreateIndexByColumns
    \/ Get

\* tables built by the constructor and indexed, each followed by a get
SpecGet == InitGet /\ [][NextGet]_vars

(* ------------------------ vocabulary of the claims -------------------- *)

\* the rows of the store, in offset order
StoreRows(t) == [i \in 1..rowLength(t) |-> record(t, i - 1)]

\* the values row i holds for the fields of the index name K, in K's order
Tuple(t, K, i) == [j \in 1..Len(K) |-> at(t.data[K[j]], i)]

\* the values an object holds for the fields of K
ObjTuple(obj, K) == [j \in 1..Len(K) |-> prop(obj, K[j])]

\* the offsets of the store rows whose K-tuple is tup
RowsWith(t, K, tup) == {i \in 0..(rowLength(t) - 1) : Tuple(t, K, i) = tup}

\* the same properties listed in every order
Reorderings(obj) ==
    {[j \in 1..Len(obj) |-> obj[p[j]]] :
        p \in {q \in [1..Len(obj) -> 1..Len(obj)] :
                  \A i, j \in 1..Len(obj) : i # j => q[i] # q[j]}}

\* the multiset of the elements of a sequence
BagOf(s) == [x \in Range(s) |-> Cardinality({i \in 1..Len(s) : s[i] = x})]

\* a sequence without its last element
Front(s) == SubSeq(s, 1, Len(s) - 1)

(* -------------------------------- claims ------------------------------ *)

\* C1: after any sequence of insert, createIndex and deleteIndex calls, for
\* every live index and every row of the store, the row's offset is in the
\* bucket whose tuple is the row's values for the index's fields, and in no
\* other bucket of that index.  The fields of the index are read in whichever
\* single order suits the index best: the claim fails in every reading.
C1_IndexConsistency ==
    \A K \in DOMAIN table.indexes :
        \E fl \in FieldLists :
            /\ fieldKey(table, fl) = K
            /\ \A i \in 0..(rowLength(table) - 1) :
                   /\ stringifyArray(Tuple(table, fl, i)) \in DOMAIN table.indexes[K]
                   /\ \A k \in DOMAIN table.indexes[K] :
                          i \in Range(table.indexes[K][k])
                              <=> k = stringifyArray(Tuple(table, fl, i))

\* C2: where(match) answered through a live index on the matched field set
\* returns the same multiset of rows as the scan made when that index does
\* not exist.
C2_IndexScanEquivalence ==
    (call.op = "where" /\ fieldKey(table, keys(call.arg)) \in DOMAIN table.indexes)
        => BagOf(records(result))
               = BagOf(records(where(deleteIndex(table, keys(call.arg)), call.arg)))

\* C3: after every completed insert, the store holds at most one row per
\* tuple of each registered uniqueness constraint.
C3_UniquenessKept ==
    (call.op = "insert" /\ outcome = "ok")
        => \A n \in 1..Len(table.uniquenessIndexNames) :
               LET K == table.uniquenessIndexNames[n]
               IN  \A i, j \in 0..(rowLength(table) - 1) :
                       Tuple(table, K, i) = Tuple(table, K, j) => i = j

\* C4: an insert whose K-tuple, K a registered constraint, equals that of
\* exactly one existing row leaves the row count as it was and leaves exactly
\* one row with that K-tuple, which carries the inserted values.
C4_ConflictingInsertReplaces ==
    call.op = "insert"
        => \A n \in 1..Len(prev.uniquenessIndexNames) :
               LET K   == prev.uniquenessIndexNames[n]
                   tup == ObjTuple(call.arg, K)
               IN  Cardinality(RowsWith(prev, K, tup)) = 1
                       => /\ table.length = prev.length
                          /\ Cardinality(RowsWith(table, K, tup)) = 1
                          /\ \A i \in RowsWith(table, K, tup) :
                                 record(table, i) = call.arg

\* C5: an insert removes exactly the prior rows that share a constrained
\* tuple with the new row; every other prior row stays, values and relative
\* order unchanged.
C5_EvictionFrame ==
    call.op = "insert"
        => Front(StoreRows(table))
               = SelectSeq(StoreRows(prev),
                     LAMBDA row :
                         ~ \E n \in 1..Len(prev.uniquenessIndexNames) :
                               ObjTuple(row, prev.uniquenessIndexNames[n])
                                   = ObjTuple(call.arg, prev.uniquenessIndexNames[n]))

\* C6: after every call of a sequence whose inserts supply complete rows,
\* every column has the same length, which is the public length and the
\* number of rows records() returns.
C6_ColumnsMatchLength ==
    \A f \in DOMAIN table.data :
        /\ Len(table.data[f]) = table.length
        /\ Len(records(table)) = table.length

\* C7: where returns identical results whichever order the match lists its
\* field-value pairs in.
C7_WhereOrderIndependent ==
    call.op = "where"
        => \A m \in Reorderings(call.arg) :
               records(where(table, m)) = records(result)

\* C8: createIndex with the same field names in another argument order
\* yields the same index: same storage key, same buckets.
C8_CreateIndexOrderIndependent ==
    call.op = "createIndex"
        => \A fl \in FieldLists :
               Range(fl) = Range(call.arg) => createIndex(prev, fl) = table

\* C9: an insert whose row lacks a schema field fails and leaves the table
\* as it was.
C9_PartialInsertRejected ==
    (call.op = "insert" /\ call.arg \in PartialRows)
        => (outcome # "ok" /\ table = prev)

\* C10: uniquenessConstraint on a field set for which the table holds two
\* rows with equal tuples fails and leaves the table unchanged.
C10_ConstraintViolationRejected ==
    (call.op = "uniquenessConstraint"
       /\ \E i, j \in 1..Len(records(prev)) :
              /\ i # j
              /\ ObjTuple(records(prev)[i], call.arg)
                     = ObjTuple(records(prev)[j], call.arg))
        => (outcome # "ok" /\ table = prev)

\* The columns of t2 are the columns of t with the values of rec appended:
\* nothing was removed and no prior value moved.
Appended(t, t2, rec) ==
    \A f \in DOMAIN t.data :
        t2.data[f] = IF f \in Range(keys(rec))
                     THEN Append(t.data[f], prop(rec, f))
                     ELSE t.data[f]

\* The complete rows whose K-tuple equals that of a row records() shows.
Duplicating(t, K) ==
    {rec \in CompleteRows :
        \E i \in 1..Len(records(t)) :
            ObjTuple(records(t)[i], K) = ObjTuple(rec, K)}

\* C11: after deleteIndex on a constrained field set K (any argument order)
\* the constraint is no longer enforced: an insert that follows and whose
\* K-tuple duplicates an existing row evicts nothing, the row count grows by
\* one, and satisfiesUniquenessConstraint(K) then returns false without
\* error.  Stated for the case in which no other constraint stays registered
\* (one that stays keeps evicting, as it should).
C11_DeleteIndexLiftsConstraint ==
    (/\ call.op = "deleteIndex"
     /\ fieldKey(prev, call.arg) \in Range(prev.uniquenessIndexNames)
     /\ table.uniquenessIndexNames = <<>>)
        => \A rec \in Duplicating(table, fieldKey(table, call.arg)) :
               LET t2 == insert(table, rec)
               IN  /\ insertOutcome(table, rec) = "ok"
                   /\ Appended(table, t2, rec)
                   /\ t2.length = table.length + 1
                   /\ ~selectThrows(t2, call.arg)
                   /\ ~satisfiesUniquenessConstraint(t2, call.arg)

\* C12: in every reachable state every field set with a registered
\* uniqueness constraint has a live backing index: the index is never gone
\* while the constraint is registered.
C12_ConstraintHasIndex ==
    \A n \in 1..Len(table.uniquenessIndexNames) :
        table.uniquenessIndexNames[n] \in DOMAIN table.indexes

\* C12 witness: deleteIndex has removed the index of one constrained field
\* set while another constraint stays registered.
C12_Witness ==
    /\ call.op = "deleteIndex"
    /\ fieldKey(prev, call.arg) \in Range(prev.uniquenessIndexNames)
    /\ fieldKey(prev, call.arg) \notin DOMAIN table.indexes
    /\ table.uniquenessIndexNames # <<>>

\* The index names of the source, at the time of the call, whose fields the
\* table d has and on which rec equals a row of d.
DuplicatedConstraints(src, d, rec) ==
    {n \in 1..Len(src.uniquenessIndexNames) :
        LET K == src.uniquenessIndexNames[n]
        IN  /\ Range(K) \subseteq Range(d.fields)
            /\ \E i \in 1..Len(records(d)) :
                   ObjTuple(records(d)[i], K) = ObjTuple(rec, K)}

\* C13: every table where or select returns starts with no indexes and no
\* uniqueness constraints, whatever the source has; an insert into the
\* derived table of a row that equals one of its rows on a field set
\* constrained in the source evicts nothing: the row is appended.
C13_DerivedStartsBare ==
    /\ (call.op \in {"where", "select"} /\ outcome = "ok")
           => /\ DOMAIN result.indexes = {}
              /\ result.uniquenessIndexNames = <<>>
    /\ (call.op = "insertDerived"
          /\ DuplicatedConstraints(table, prev, call.arg) # {})
           => /\ outcome = "ok"
              /\ Appended(prev, result, call.arg)
              /\ result.length = prev.length + 1
              /\ records(result) = Append(records(prev), call.arg)

\* C13 witness: the source has a constraint, and the row just inserted into
\* the derived table equals one of the derived table's rows on its fields.
C13_Witness ==
    /\ call.op = "insertDerived"
    /\ DuplicatedConstraints(table, prev, call.arg) # {}
    /\ result.length = 2

\* C14: a table where or select returns shares no mutable state with its
\* source: an insert into the derived table leaves the source's rows, length
\* and indexes as they are, and an insert into the source leaves the derived
\* table's rows and length as they are (so does any sequence of them).
C14_DerivedIndependent ==
    [][/\ call'.op = "insertDerived" => table' = table
       /\ call'.op = "insertSource"
              => /\ result'.data = result.data
                 /\ result'.length = result.length
                 /\ records(result') = records(result)]_vars

\* C14 witness: the derived table came from the index branch of where, with
\* at least one row, and then a row was inserted into the source.
C14_Witness ==
    /\ call.op = "insertSource"
    /\ "fields" \in shared
    /\ outcome = "ok"
    /\ table.length > prev.length
    /\ result.length >= 1

\* the row obj restricted to the fields of the list, in the list's order
Project(obj, fields) == [j \in 1..Len(fields) |-> <<fields[j], prop(obj, fields[j])>>]

\* C15: select(fields) on a table with at least one row returns a table with
\* the same row count and row order whose rows hold exactly the requested
\* fields with the source's values; select of all the schema's fields
\* followed by records() gives the rows records() gives on the source.
C15_SelectProjects ==
    (/\ call.op = "select"
     /\ call.arg \in FieldLists
     /\ prev.length >= 1)
        => /\ outcome = "ok"
           /\ result.length = prev.length
           /\ records(result)
                  = [i \in 1..Len(records(prev)) |-> Project(records(prev)[i], call.arg)]
           /\ call.arg = Schema => records(result) = records(prev)

\* C15 with the rows and the row count read off the columns instead of
\* length and records().
C15_SelectProjectsStore ==
    (/\ call.op = "select"
     /\ call.arg \in FieldLists
     /\ rowLength(prev) >= 1)
        => /\ outcome = "ok"
           /\ result.length = rowLength(prev)
           /\ records(result)
                  = [i \in 1..rowLength(prev) |-> Project(StoreRows(prev)[i], call.arg)]

\* the offsets of the store rows that carry the required value on every field
\* of the match, in ascending order
MatchingOffsets(t, match) ==
    SelectSeq(Offsets(rowLength(t)),
              LAMBDA i : \A j \in 1..Len(match) :
                  prop(StoreRows(t)[i + 1], match[j][1]) = match[j][2])

\* C16: where(match) without a matching index returns exactly the rows of
\* the store that carry the required value on every matched field, each such
\* row once, in the order the rows have in the store.
C16_ScanReturnsMatches ==
    (/\ call.op = "where"
     /\ fieldKey(prev, keys(call.arg)) \notin DOMAIN prev.indexes)
        => /\ StoreRows(result)
                  = [k \in 1..Len(MatchingOffsets(prev, call.arg)) |->
                        StoreRows(prev)[MatchingOffsets(prev, call.arg)[k] + 1]]
           /\ records(result) = StoreRows(result)
           /\ result.length = Len(MatchingOffsets(prev, call.arg))

\* C16 witness: a scan over a store of three rows returned the first and the
\* last of them and left out the row between.
C16_Witness ==
    /\ call.op = "where"
    /\ fieldKey(prev, keys(call.arg)) \notin DOMAIN prev.indexes
    /\ rowLength(prev) = 3
    /\ MatchingOffsets(prev, call.arg) = <<0, 2>>
    /\ result.length = 2

\* rec equals no row of the store of t on the fields of any registered
\* constraint
ConflictFree(t, rec) ==
    \A n \in 1..Len(t.uniquenessIndexNames) :
        RowsWith(t, t.uniquenessIndexNames[n],
                 ObjTuple(rec, t.uniquenessIndexNames[n])) = {}

\* C17: an insert of a complete row that conflicts with no registered
\* uniqueness constraint raises the row count by exactly one, puts the new
\* row at the last offset and leaves every prior row at its offset with its
\* values; a where on the new row's field values then finds it (in at
\* least one order of the match's properties).
C17_InsertAppends ==
    (/\ call.op = "insert"
     /\ call.arg \in CompleteRows
     /\ ConflictFree(prev, call.arg))
        => /\ outcome = "ok"
           /\ table.length = prev.length + 1
           /\ StoreRows(table) = Append(StoreRows(prev), call.arg)
           /\ records(table) = Append(records(prev), call.arg)
           /\ \E m \in Reorderings(call.arg) :
                  call.arg \in Range(records(where(table, m)))

\* C18: single() returns the one stored value when the table has exactly one
\* field and exactly one row, and fails with an error, leaving the table
\* unchanged, whenever the field count or the row count differs from one
\* (zero rows included).
C18_SingleShape ==
    call.op \in {"single", "singleDerived"}
        => /\ (Len(prev.fields) = 1 /\ Len(records(prev)) = 1)
                  => /\ outcome = "ok"
                     /\ value = records(prev)[1][1][2]
                     /\ value = StoreRows(prev)[1][1][2]
           /\ (Len(prev.fields) # 1 \/ Len(records(prev)) # 1)
                  => outcome = "Error"
           /\ call.op = "single" => table = prev
           /\ call.op = "singleDerived" => result = prev

\* C18 witness: single returned the value of a table of one field and one row.
C18_Witness ==
    /\ call.op = "singleDerived"
    /\ outcome = "ok"
    /\ value = MaxVal

\* single failed on a table of one field and two rows
C18_WitnessError ==
    /\ call.op = "singleDerived"
    /\ outcome = "Error"
    /\ Len(prev.fields) = 1
    /\ prev.length = 2

\* the names in a select's argument list that the table's schema lacks
Unknown(t, fields) == {fields[j] : j \in 1..Len(fields)} \ Range(t.fields)

\* C19: select with a field name that is not in the table's schema fails
\* with an error in every table state, whatever the row count, and so never
\* returns a table that has that field.
C19_SelectUnknownFieldFails ==
    (call.op = "select" /\ Unknown(prev, call.arg) # {})
        => outcome # "ok"

\* the offsets insert deletes for rec: the buckets of the new row's tuple in
\* the constrained indexes, in registration order
EvictedOffsets(t, rec) ==
    LET hit(n) == LET name == t.uniquenessIndexNames[n]
                  IN  IF /\ name \in DOMAIN t.indexes
                         /\ recordKey(name, rec) \in DOMAIN t.indexes[name]
                      THEN t.indexes[name][recordKey(name, rec)]
                      ELSE <<>>
        F[n \in 0..Len(t.uniquenessIndexNames)] ==
            IF n = 0 THEN <<>> ELSE F[n - 1] \o hit(n)
    IN  F[Len(t.uniquenessIndexNames)]

\* a bucket after the row at offset i has left the store: its entry for i is
\* gone and every larger offset is one less
Shifted(bucket, i) ==
    LET kept == SelectSeq(bucket, LAMBDA o : o # i)
    IN  [k \in 1..Len(kept) |-> IF kept[k] > i THEN kept[k] - 1 ELSE kept[k]]

\* the index `index` of name `name` after the row at offset i was evicted and
\* rec appended at offset last: shifted buckets, the new offset in the bucket
\* of rec's tuple, and no empty bucket
IndexAfterEviction(index, name, i, rec, last) ==
    LET key == recordKey(name, rec)
        bucket(k) == (IF k \in DOMAIN index THEN Shifted(index[k], i) ELSE <<>>)
                         \o (IF k = key THEN <<last>> ELSE <<>>)
    IN  [k \in {x \in (DOMAIN index) \cup {key} : bucket(x) # <<>>} |-> bucket(k)]

\* C20: when an insert evicts the row at offset i, then after the insert
\* every live index, constrained or not, no longer holds the evicted row's
\* offset, has every offset greater than i decremented by one, and has no
\* empty bucket.  Stated for inserts that evict exactly one row.
C20_EvictionReindexes ==
    (/\ call.op = "insert"
     /\ call.arg \in CompleteRows
     /\ Len(EvictedOffsets(prev, call.arg)) = 1
     /\ EvictedOffsets(prev, call.arg)[1] \in 0..(rowLength(prev) - 1))
        => \A name \in DOMAIN table.indexes :
               table.indexes[name]
                   = IndexAfterEviction(prev.indexes[name], name,
                                        EvictedOffsets(prev, call.arg)[1],
                                        call.arg, rowLength(prev) - 1)

\* C21: in every reachable state every offset in a bucket of a live index
\* names a row that is in the store (0 <= offset < row count) and occurs at
\* most once in that index, so that a where answered through an index
\* returns no phantom row and no row twice.
C21_IndexOffsetsValid ==
    \A name \in DOMAIN table.indexes :
        LET index == table.indexes[name]
        IN  /\ \A k \in DOMAIN index : \A p \in 1..Len(index[k]) :
                   index[k][p] \in 0..(rowLength(table) - 1)
            /\ \A k1, k2 \in DOMAIN index :
                   \A p1 \in 1..Len(index[k1]), p2 \in 1..Len(index[k2]) :
                       (k1 # k2 \/ p1 # p2) => index[k1][p1] # index[k2][p2]

\* the rows of t without those at the offsets of the list E
WithoutOffsets(t, E) ==
    SelectSeq([i \in 1..rowLength(t) |-> <<i - 1, StoreRows(t)[i]>>],
              LAMBDA p : p[1] \notin Range(E))

\* C22: when one insert evicts more than one row (a bucket with several
\* offsets, or several constraints naming different prior rows), the rows
\* removed are exactly the rows that stood at the named offsets before the
\* insert began.  Stated for named offsets that are distinct and name rows
\* of the store.
C22_MultiEviction ==
    LET E == EvictedOffsets(prev, call.arg)
    IN  (/\ call.op = "insert"
         /\ call.arg \in CompleteRows
         /\ Len(E) >= 2
         /\ Cardinality(Range(E)) = Len(E)
         /\ Range(E) \subseteq 0..(rowLength(prev) - 1))
            => StoreRows(table)
                   = Append([k \in 1..Len(WithoutOffsets(prev, E)) |->
                                WithoutOffsets(prev, E)[k][2]],
                            call.arg)

\* C23: within one insert the steps come in the order evict, append to the
\* store, update the indexes: no index holds the new row's offset before the
\* store contains the new row, and every eviction is finished before the new
\* row is added to any index.
C23_InsertStepOrder ==
    call.op = "insert"
        => /\ step.at \in {"evict", "append"} => table.indexes = prev.indexes
           /\ table.indexes # prev.indexes
                  => /\ step.names = <<>>
                     /\ step.rows = <<>>
                     /\ StoreRows(table) # <<>>
                     /\ StoreRows(table)[rowLength(table)] = call.arg
                     /\ Front(StoreRows(table))
                            = StoreRows(evict(prev, prev.uniquenessIndexNames,
                                              call.arg).table)

\* C23 witness: an insert that evicted a row has put the new row in the
\* store and in one index, with another index still to update.
C23_Witness ==
    /\ call.op = "insert"
    /\ step.at = "index"
    /\ step.todo # {}
    /\ table.indexes # prev.indexes
    /\ Len(EvictedOffsets(prev, call.arg)) >= 1
    /\ rowLength(prev) >= 2

\* a followed insert ends in the table the one-step insert gives
StepsAgreeWithInsert ==
    (call.op = "insert" /\ step.at = "idle")
        => /\ table = insert(prev, call.arg)
           /\ outcome = insertOutcome(prev, call.arg)

\* the index of name K the store of t calls for: under each tuple that
\* occurs, the ascending offsets of the rows with that tuple
IndexOfStore(t, K) ==
    [k \in {stringifyArray(Tuple(t, K, i)) : i \in 0..(rowLength(t) - 1)} |->
        SelectSeq(Offsets(rowLength(t)),
                  LAMBDA i : stringifyArray(Tuple(t, K, i)) = k)]

\* C24: createIndex on a field set that already has an index discards the
\* old index and rebuilds it from the store alone: right after the call each
\* bucket of that index is the ascending list of the offsets of all rows
\* whose values form its tuple, whatever the index held before.
C24_CreateIndexRebuilds ==
    (/\ call.op = "createIndex"
     /\ fieldKey(prev, call.arg) \in DOMAIN prev.indexes)
        => /\ table.indexes[fieldKey(prev, call.arg)]
                  = IndexOfStore(table, fieldKey(prev, call.arg))
           /\ table.data = prev.data

\* C24 with each bucket's tuple read in the order of the call's arguments
\* instead of the order of the index name.
C24_CreateIndexRebuildsArgOrder ==
    (/\ call.op = "createIndex"
     /\ fieldKey(prev, call.arg) \in DOMAIN prev.indexes)
        => /\ table.indexes[fieldKey(prev, call.arg)]
                  = IndexOfStore(table, call.arg)
           /\ table.data = prev.data

\* C25: registering a uniqueness constraint is idempotent: a second
\* uniquenessConstraint on the same field set, in the same or another
\* argument order, leaves a single registration, and a later conflicting
\* insert evicts and counts exactly as after a single registration.
C25_ConstraintIdempotent ==
    (/\ call.op = "uniquenessConstraint"
     /\ outcome = "ok"
     /\ fieldKey(prev, call.arg) \in Range(prev.uniquenessIndexNames))
        => /\ table.uniquenessIndexNames = prev.uniquenessIndexNames
           /\ \A rec \in CompleteRows :
                  LET once == [table EXCEPT !.uniquenessIndexNames =
                                  prev.uniquenessIndexNames]
                  IN  /\ StoreRows(insert(table, rec)) = StoreRows(insert(once, rec))
                      /\ insert(table, rec).length = insert(once, rec).length

\* C26: select on a table with zero rows (such as the result of a where that
\* matched nothing) returns a table with zero rows and the requested fields
\* instead of failing, and single() on that table reports the shape error.
C26_SelectOnEmpty ==
    (/\ call.op \in {"select", "selectDerived"}
     /\ Range(call.arg) \subseteq Range(prev.fields)
     /\ rowLength(prev) = 0
     /\ prev.length = 0)
        => /\ outcome = "ok"
           /\ result.fields = call.arg
           /\ result.length = 0
           /\ singleOutcome(result) = "Error"

\* C27: when a live index exists for exactly the matched field set and no
\* row has the requested tuple, where returns an empty table taken from the
\* index, without falling back to a scan; the scan is used only when no
\* index exists for that field set.
C27_IndexedMissIsEmpty ==
    call.op = "where"
        => LET K == fieldKey(prev, keys(call.arg))
           IN  /\ (K \in DOMAIN prev.indexes
                     /\ RowsWith(prev, K, ObjTuple(call.arg, K)) = {})
                      => /\ result.length = 0
                         /\ records(result) = <<>>
                         /\ result.fields = prev.fields
               /\ K \in DOMAIN prev.indexes => result = whereIndexed(prev, call.arg)
               /\ K \notin DOMAIN prev.indexes => result = whereScan(prev, call.arg)


\* no two rows of the sequence rows hold equal values on all of fields
Distinct(rows, fields) ==
    \A i, j \in 1..Len(rows) :
        i # j => ObjTuple(rows[i], fields) # ObjTuple(rows[j], fields)

\* C28: satisfiesUniquenessConstraint(fields) returns true exactly when no
\* two rows of the table hold equal values on all the given fields, for every
\* table and every argument order, and it changes nothing in the table.  The
\* rows are the ones records() lists.
C28_SatisfiesIffDistinct ==
    call.op = "satisfiesUniquenessConstraint"
        => /\ outcome = "ok"
           /\ value = Distinct(records(prev), call.arg)
           /\ table = prev

\* C28 read over the rows of the store and over tables with at least one row
C28_SatisfiesIffDistinctStore ==
    (call.op = "satisfiesUniquenessConstraint" /\ rowLength(prev) > 0)
        => /\ outcome = "ok"
           /\ value = Distinct(StoreRows(prev), call.arg)
           /\ table = prev


\* the schema fields an argument of get leaves unspecified: omitted, or given
\* as Microtable.blank
Unspecified(obj) ==
    {f \in Range(Schema) : f \notin Range(keys(obj)) \/ prop(obj, f) = blank}

\* the offsets of the store rows that hold the values obj supplies
Matching(t, obj) ==
    {i \in 0..(rowLength(t) - 1) :
        \A f \in Range(Schema) \ Unspecified(obj) : at(t.data[f], i) = prop(obj, f)}

\* C29: get(obj) with exactly one schema field left unspecified returns that
\* field's value from the single row that holds the supplied values and
\* undefined when no row holds them; it fails with an error when more than
\* one field is left unspecified or more than one row holds the supplied
\* values; the supplied values may be any stored value, and the table is
\* never modified.
C29_GetByComplement ==
    call.op = "get"
        => LET U == Unspecified(call.arg)
               M == Matching(prev, call.arg)
           IN  /\ (Cardinality(U) = 1 /\ Cardinality(M) = 1)
                      => /\ outcome = "ok"
                         /\ \A f \in U, i \in M : value = at(prev.data[f], i)
               /\ (Cardinality(U) = 1 /\ M = {})
                      => /\ outcome = "ok"
                         /\ value = Undef
               /\ (Cardinality(U) > 1 \/ Cardinality(M) > 1) => outcome = "Error"
               /\ table = prev

\* C29 for arguments that supply no falsy value and give one field as
\* Microtable.blank only when they name every field
C29_GetByComplementTruthy ==
    (/\ call.op = "get"
     /\ \A f \in Range(keys(call.arg)) : prop(call.arg, f) # Zero
     /\ (getBlanks(call.arg) # <<>> => Len(call.arg) = Len(Schema)))
        => C29_GetByComplement

====
